---- MODULE Spec2Model ----
(***************************************************************************)
(* Model of stock.py, the Streamlit moving-average / RSI backtest          *)
(* dashboard.  One run of the script is: the sidebar widgets are read,     *)
(* the price history is fetched, the engine derives the DataFrame columns  *)
(* and the report shows the metrics.  Every interaction reruns the script. *)
(*                                                                         *)
(* Numbers.  The script computes in float64.  The model computes the same  *)
(* expressions exactly, over extended rationals <<n, d>>: d > 0 is the     *)
(* reduced fraction n/d, <<0, 0>> is NaN, <<1, 0>> and <<-1, 0>> are       *)
(* +inf and -inf.  Close prices are positive integers (a price in its      *)
(* smallest unit).  Sequences are 1-based: index i of the code is index    *)
(* i + 1 here.                                                             *)
(***************************************************************************)
EXTENDS Integers, Sequences, FiniteSets, TLC

VARIABLES pc, target_stock, initial_capital, cost_pct, strategy_option,
          short_p, long_p, use_rsi, rsi_limit, df, metrics

vars == <<pc, target_stock, initial_capital, cost_pct, strategy_option,
          short_p, long_p, use_rsi, rsi_limit, df, metrics>>

widgets == <<target_stock, initial_capital, cost_pct, strategy_option,
             short_p, long_p, use_rsi, rsi_limit>>

(***************************************************************************)
(* Bounds of the model and constants of the program.                       *)
(***************************************************************************)
\* longest freely chosen price history
MaxLen == 4
\* longest freely chosen tail after the flat warm-up of RsiWindow - 1 rows
TailLen == 2
\* calculate_rsi(data, window=14)
RsiWindow == 14
\* st.slider("摩擦成本 (%)", 0.0, 1.0, 0.2, 0.05): 20 steps of 0.05 %
CostSliderSteps == 20
\* one slider step, 0.05 / 100, is 1 / 2000
CostStepDenominator == 2000

\* close prices the data source may deliver
Prices == {1, 2, 400}
\* slider positions explored (in steps of 0.05 %): 0 % and 1 %
CostSteps == {0, CostSliderSteps}
\* st.number_input("投資本金", value=1000000, step=100000); one unit here is
\* the default capital.  The widget sets no min_value; the capital is a
\* positive number (Parameters, spec section 3) and is modelled as one.
InitialCapitals == {1, 2}
\* c1.number_input("短均", 1, 100, 10), c2.number_input("長均", 2, 200, 30)
ShortInputs == {1, 2, 3}
LongInputs == {2}
\* st.slider("RSI 進場上限", 50, 90, 70)
RsiLimits == {50, 90}
\* the symbol pool; "" is what an empty text input selects
Symbols == {"", "NVDA"}

(***************************************************************************)
(* Extended rational arithmetic.                                           *)
(***************************************************************************)
NaN == <<0, 0>>

Abs(n) == IF n < 0 THEN 0 - n ELSE n

Sign(n) == IF n < 0 THEN 0 - 1 ELSE IF n > 0 THEN 1 ELSE 0

RECURSIVE GCD(_, _)
GCD(a, b) == IF b = 0 THEN a ELSE GCD(b, a % b)

\* the reduced fraction n/d; a zero denominator gives NaN or a signed infinity
Norm(n, d) ==
  IF d = 0 THEN <<Sign(n), 0>>
  ELSE LET g == GCD(Abs(n), Abs(d))
           s == Sign(d)
       IN <<s * (n \div g), s * (d \div g)>>

R(n) == <<n, 1>>

IsNaN(x) == x = NaN

IsFinite(x) == x[2] # 0

RMul(x, y) ==
  IF IsNaN(x) \/ IsNaN(y) THEN NaN
  ELSE IF ~IsFinite(x) \/ ~IsFinite(y) THEN <<Sign(x[1]) * Sign(y[1]), 0>>
  ELSE LET g1 == GCD(Abs(x[1]), y[2])
           g2 == GCD(Abs(y[1]), x[2])
       IN <<(x[1] \div g1) * (y[1] \div g2), (x[2] \div g2) * (y[2] \div g1)>>

RNeg(x) == <<0 - x[1], x[2]>>

RAdd(x, y) ==
  IF IsNaN(x) \/ IsNaN(y) THEN NaN
  ELSE IF ~IsFinite(x) /\ ~IsFinite(y) THEN (IF x = y THEN x ELSE NaN)
  ELSE IF ~IsFinite(x) THEN x
  ELSE IF ~IsFinite(y) THEN y
  ELSE LET g == GCD(x[2], y[2])
       IN Norm(x[1] * (y[2] \div g) + y[1] * (x[2] \div g), (x[2] \div g) * y[2])

RSub(x, y) == RAdd(x, RNeg(y))

\* float division: x/0 is NaN for x = 0 and a signed infinity otherwise
RDiv(x, y) ==
  IF IsNaN(x) \/ IsNaN(y) THEN NaN
  ELSE IF ~IsFinite(y) THEN (IF IsFinite(x) THEN R(0) ELSE NaN)
  ELSE IF y[1] = 0 THEN <<Sign(x[1]), 0>>
  ELSE IF ~IsFinite(x) THEN <<Sign(x[1]) * Sign(y[1]), 0>>
  ELSE RMul(x, <<Sign(y[1]) * y[2], Abs(y[1])>>)

\* a/b < c/d for b, d > 0, by continued fractions (no cross product)
RECURSIVE FracLess(_, _, _, _)
FracLess(a, b, c, d) ==
  LET qa == a \div b
      qc == c \div d
      ra == a % b
      rc == c % d
  IN IF qa # qc THEN qa < qc
     ELSE IF rc = 0 THEN FALSE
     ELSE IF ra = 0 THEN TRUE
     ELSE FracLess(d, rc, b, ra)

\* float <: false whenever an operand is NaN
RLess(x, y) ==
  IF IsNaN(x) \/ IsNaN(y) THEN FALSE
  ELSE IF x = y THEN FALSE
  ELSE IF ~IsFinite(x) THEN x[1] < 0
  ELSE IF ~IsFinite(y) THEN y[1] > 0
  ELSE FracLess(x[1], x[2], y[1], y[2])

RLeq(x, y) == ~IsNaN(x) /\ ~IsNaN(y) /\ ~RLess(y, x)

RMax(x, y) == IF RLess(x, y) THEN y ELSE x

RMin(x, y) == IF RLess(y, x) THEN y ELSE x

(***************************************************************************)
(* pandas / numpy series operations used by the script.                    *)
(***************************************************************************)
\* a Series holds its values: the column is computed once, row by row
Column(s) == SubSeq(s, 1, Len(s))

RECURSIVE SumRange(_, _, _)
SumRange(s, lo, hi) == IF lo > hi THEN 0 ELSE s[hi] + SumRange(s, lo, hi - 1)

\* RollingMean as rolling(window=w, min_periods=1) would give it
RollingMean_MinPeriods1(s, w) ==
  [i \in 1..Len(s) |->
     IF i < w THEN Norm(SumRange(s, 1, i), i) ELSE Norm(SumRange(s, i - w + 1, i), w)]

\* Series.rolling(window=w).mean() over an integer series without NaN
RollingMean(s, w) ==
  [i \in 1..Len(s) |-> IF i < w THEN NaN ELSE Norm(SumRange(s, i - w + 1, i), w)]

\* Series.diff() of an integer series
Diff(s) == [i \in 1..Len(s) |-> IF i = 1 THEN NaN ELSE R(s[i] - s[i - 1])]

\* Series.shift(1) of an integer series
Shift1(s) == [i \in 1..Len(s) |-> IF i = 1 THEN NaN ELSE R(s[i - 1])]

\* Series.fillna(v)
FillNa(s, v) == [i \in 1..Len(s) |-> IF IsNaN(s[i]) THEN v ELSE s[i]]

\* Series.abs()
AbsSeries(s) == [i \in 1..Len(s) |-> <<Abs(s[i][1]), s[i][2]>>]

\* Series.pct_change() of the close prices
PctChange(s) ==
  [i \in 1..Len(s) |-> IF i = 1 THEN NaN ELSE RSub(RDiv(R(s[i]), R(s[i - 1])), R(1))]

\* the running products of s[i..], continuing from the product acc of s[1..i-1]
RECURSIVE CumProdFrom(_, _, _)
CumProdFrom(s, i, acc) ==
  IF i > Len(s) THEN <<>>
  ELSE LET p == RMul(acc, s[i]) IN <<p>> \o CumProdFrom(s, i + 1, p)

\* Series.cumprod()
CumProd(s) == CumProdFrom(Column(s), 1, R(1))

\* the running maxima of s[i..], continuing from the maximum acc of s[1..i-1]
RECURSIVE CumMaxFrom(_, _, _)
CumMaxFrom(s, i, acc) ==
  IF i > Len(s) THEN <<>>
  ELSE LET m == RMax(acc, s[i]) IN <<m>> \o CumMaxFrom(s, i + 1, m)

\* Series.cummax() of a series without NaN
CumMax(s) ==
  IF Len(s) = 0 THEN <<>> ELSE <<s[1]>> \o CumMaxFrom(Column(s), 2, s[1])

RECURSIVE MinFrom(_, _)
MinFrom(s, i) ==
  IF i > Len(s) THEN NaN
  ELSE LET rest == MinFrom(s, i + 1)
       IN IF IsNaN(s[i]) THEN rest
          ELSE IF IsNaN(rest) THEN s[i]
          ELSE RMin(s[i], rest)

\* Series.min(): NaN entries are skipped; NaN when nothing is left
SeriesMin(s) == MinFrom(s, 1)

\* Series.sum() of an integer-valued series
SeriesSum(s) == SumRange([i \in 1..Len(s) |-> s[i][1]], 1, Len(s))

(***************************************************************************)
(* calculate_rsi.  An RSI value is kept as the pair <<gain, loss>> of its  *)
(* two rolling means; the script's value is 100 - 100 / (1 + rs) with      *)
(* rs = gain / (loss + 1e-9).                                              *)
(***************************************************************************)
\* delta.where(delta > 0, 0): NaN > 0 is false, so row 1 becomes 0
GainInput(delta) ==
  [i \in 1..Len(delta) |-> IF RLess(R(0), delta[i]) THEN delta[i][1] ELSE 0]

\* -delta.where(delta < 0, 0)
LossInput(delta) ==
  [i \in 1..Len(delta) |-> IF RLess(delta[i], R(0)) THEN 0 - delta[i][1] ELSE 0]

calculate_rsi(data, window) ==
  LET delta == Diff(data)
      gain == RollingMean(GainInput(delta), window)
      loss == RollingMean(LossInput(delta), window)
  IN [i \in 1..Len(data) |-> <<gain[i], loss[i]>>]

\* df['RSI'] < rsi_limit.  With rs = gain / (loss + 1e-9) and 0 < limit < 100,
\* 100 - 100 / (1 + rs) < limit  iff  gain * (100 - limit) < limit * (loss + 1e-9).
\* gain and loss are integer multiples of 1 / window and limit * 1e-9 is below
\* 1 / window, so this is  gain * (100 - limit) <= limit * loss.  NaN < x is false.
RsiBelow(rsi, limit) ==
  /\ ~IsNaN(rsi[1])
  /\ ~IsNaN(rsi[2])
  /\ RLeq(RMul(rsi[1], R(100 - limit)), RMul(rsi[2], R(limit)))

(***************************************************************************)
(* The engine's columns (section 4 of the script).                         *)
(***************************************************************************)
\* MASignal with >= in place of >
MASignal_Geq(short_ma, long_ma) ==
  [i \in 1..Len(short_ma) |-> IF RLeq(long_ma[i], short_ma[i]) THEN 1 ELSE 0]

\* MASignal as the negation of <=, which is true on NaN
MASignal_NotLeq(short_ma, long_ma) ==
  [i \in 1..Len(short_ma) |-> IF RLeq(short_ma[i], long_ma[i]) THEN 0 ELSE 1]

\* np.where(df['Short_MA'] > df['Long_MA'], 1, 0)
MASignal(short_ma, long_ma) ==
  [i \in 1..Len(short_ma) |-> IF RLess(long_ma[i], short_ma[i]) THEN 1 ELSE 0]

\* FilteredSignal with | in place of &
FilteredSignal_Or(ma_signal, rsi, ur, limit) ==
  IF ur
  THEN [i \in 1..Len(ma_signal) |->
          IF ma_signal[i] = 1 \/ RsiBelow(rsi[i], limit) THEN 1 ELSE 0]
  ELSE ma_signal

\* np.where((df['MA_Signal'] == 1) & (df['RSI'] < rsi_limit), 1, 0) if use_rsi
\* else df['MA_Signal']
FilteredSignal(ma_signal, rsi, ur, limit) ==
  IF ur
  THEN [i \in 1..Len(ma_signal) |->
          IF ma_signal[i] = 1 /\ RsiBelow(rsi[i], limit) THEN 1 ELSE 0]
  ELSE ma_signal

\* TradeSeries without .abs()
TradeSeries_NoAbs(signal) == FillNa(Diff(signal), R(0))

\* df['Signal'].diff().fillna(0).abs()
TradeSeries(signal) == AbsSeries(FillNa(Diff(signal), R(0)))

\* StratRet without .shift(1): today's signal earns today's move
StratRet_LookAhead(signal, trade, market_ret, cost) ==
  [i \in 1..Len(signal) |->
     RSub(RMul(R(signal[i]), market_ret[i]), RMul(trade[i], cost))]

\* StratRet with the cost added instead of deducted
StratRet_CostAdded(signal, trade, market_ret, cost) ==
  LET lagged == Shift1(signal)
  IN [i \in 1..Len(signal) |->
        RAdd(RMul(lagged[i], market_ret[i]), RMul(trade[i], cost))]

\* (df['Signal'].shift(1) * df['Market_Ret']) - (df['Trade'] * cost_pct)
StratRet(signal, trade, market_ret, cost) ==
  LET lagged == Shift1(signal)
  IN [i \in 1..Len(signal) |->
        RSub(RMul(lagged[i], market_ret[i]), RMul(trade[i], cost))]

\* Account without .fillna(0)
Account_NoFillNa(capital, ret) ==
  LET growth == CumProd([i \in 1..Len(ret) |-> RAdd(R(1), ret[i])])
  IN [i \in 1..Len(ret) |-> RMul(R(capital), growth[i])]

\* initial_capital * (1 + ret.fillna(0)).cumprod()
Account(capital, ret) ==
  LET growth == CumProd([i \in 1..Len(ret) |-> RAdd(R(1), FillNa(ret, R(0))[i])])
  IN [i \in 1..Len(ret) |-> RMul(R(capital), growth[i])]

\* Drawdown measured from the account up to the peak
Drawdown_PeakMinusAccount(acc, peak) ==
  [i \in 1..Len(acc) |-> RDiv(RSub(peak[i], acc[i]), peak[i])]

\* (df['Acc_Strat'] - df['Peak']) / df['Peak']
Drawdown(acc, peak) ==
  [i \in 1..Len(acc) |-> RDiv(RSub(acc[i], peak[i]), peak[i])]

\* lines 71-87: every derived column, from the close prices and the widgets
Engine(close, sp, lp, ur, limit, cost, capital) ==
  LET short_ma == Column(RollingMean(close, sp))
      long_ma == Column(RollingMean(close, lp))
      rsi == Column(calculate_rsi(close, RsiWindow))
      ma_signal == Column(MASignal(short_ma, long_ma))
      signal == Column(FilteredSignal(ma_signal, rsi, ur, limit))
      trade == Column(TradeSeries(signal))
      market_ret == Column(PctChange(close))
      strat_ret == Column(StratRet(signal, trade, market_ret, cost))
      acc_strat == Column(Account(capital, strat_ret))
      acc_market == Column(Account(capital, market_ret))
      peak == Column(CumMax(acc_strat))
  IN [Close |-> close, Short_MA |-> short_ma, Long_MA |-> long_ma, RSI |-> rsi,
      MA_Signal |-> ma_signal, Signal |-> signal, Trade |-> trade,
      Market_Ret |-> market_ret, Strat_Ret |-> strat_ret,
      Acc_Strat |-> acc_strat, Acc_Market |-> acc_market,
      Peak |-> peak, DD |-> Column(Drawdown(acc_strat, peak))]

DerivedColumns ==
  {"Short_MA", "Long_MA", "RSI", "MA_Signal", "Signal", "Trade", "Market_Ret",
   "Strat_Ret", "Acc_Strat", "Acc_Market", "Peak", "DD"}

\* lines 93-101 and 139: the metric cards and the position line
Metrics(d, capital) ==
  LET n == Len(d.Close)
      final_val == d.Acc_Strat[n]
  IN [final_val |-> final_val,
      roi |-> RMul(RSub(RDiv(final_val, R(capital)), R(1)), R(100)),
      market_roi |-> RMul(RSub(RDiv(d.Acc_Market[n], R(capital)), R(1)), R(100)),
      mdd |-> RMul(SeriesMin(d.DD), R(100)),
      trades |-> SeriesSum(d.Trade),
      holding |-> d.Signal[n] = 1]

(***************************************************************************)
(* Price histories the data source may return.                             *)
(***************************************************************************)
SeqsOfLen(n) == [1..n -> Prices]

Flat(v, n) == [i \in 1..n |-> v]

Ramp(a, n) == [i \in 1..n |-> a + i - 1]

\* every history of at most MaxLen rows
ShortHistories == UNION {SeqsOfLen(n) : n \in 0..MaxLen}

\* a flat warm-up of RsiWindow - 1 rows, then a free tail: the RSI is defined
\* on the tail
WarmHistories ==
  {Flat(2, RsiWindow - 1) \o t : t \in UNION {SeqsOfLen(n) : n \in 1..TailLen}}

\* 100, 101, ..., 129, and a history that collapses twice
ScenarioHistories == {Ramp(100, 30), <<1, 400, 1, 400, 1>>}

PriceHistories == ShortHistories \cup WarmHistories \cup ScenarioHistories

\* pd.DataFrame()
EmptyFrame == [c \in {} |-> <<>>]

\* IsEmpty as a test for fewer than two rows
IsEmpty_FewerThanTwo(d) == IF DOMAIN d = {} THEN TRUE ELSE Len(d.Close) < 2

\* DataFrame.empty: no column, or no row
IsEmpty(d) == IF DOMAIN d = {} THEN TRUE ELSE Len(d.Close) = 0

(***************************************************************************)
(* The script as a state machine.                                          *)
(***************************************************************************)
Init ==
  /\ pc = "sidebar"
  /\ target_stock = "NVDA"
  /\ initial_capital = 1
  /\ cost_pct = Norm(4, CostStepDenominator)
  /\ strategy_option = "5/20 MA"
  /\ short_p = 5
  /\ long_p = 20
  /\ use_rsi = TRUE
  /\ rsi_limit = 70
  /\ df = EmptyFrame
  /\ metrics = EmptyFrame

\* lines 44-65, the widgets as the user left them: nothing was touched
SidebarUnchanged ==
  /\ pc = "sidebar"
  /\ pc' = "fetch"
  /\ UNCHANGED <<widgets, df, metrics>>

\* lines 44-65, the widgets after the user set them
SidebarInput ==
  /\ pc = "sidebar"
  /\ pc' = "fetch"
  /\ target_stock' \in Symbols
  /\ initial_capital' \in InitialCapitals
  /\ \E k \in CostSteps : cost_pct' = Norm(k, CostStepDenominator)
  /\ \/ strategy_option' = "5/20 MA" /\ short_p' = 5 /\ long_p' = 20
     \/ strategy_option' = "20/60 MA" /\ short_p' = 20 /\ long_p' = 60
     \/ strategy_option' = "custom" /\ short_p' \in ShortInputs /\ long_p' \in LongInputs
  /\ use_rsi' \in BOOLEAN
  /\ rsi_limit' \in RsiLimits
  /\ UNCHANGED <<df, metrics>>

\* line 68: `if target_stock:` is false for the empty symbol
NoTarget ==
  /\ pc = "fetch"
  /\ target_stock = ""
  /\ pc' = "done"
  /\ UNCHANGED <<widgets, df, metrics>>

\* lines 29-33, 69: ticker.history(period="1y") returns a frame.  The cache
\* (ttl=3600) replays an earlier return, which is one of these too.
get_stock_data ==
  /\ pc = "fetch"
  /\ target_stock # ""
  /\ \E h \in PriceHistories : df' = [Close |-> h]
  /\ pc' = "engine"
  /\ UNCHANGED <<widgets, metrics>>

\* line 34: any exception gives pd.DataFrame()
get_stock_data_except ==
  /\ pc = "fetch"
  /\ target_stock # ""
  /\ df' = EmptyFrame
  /\ pc' = "engine"
  /\ UNCHANGED <<widgets, metrics>>

\* line 70: `if not df.empty:` is false, nothing is computed or shown
SkipEmpty ==
  /\ pc = "engine"
  /\ IsEmpty(df)
  /\ pc' = "done"
  /\ UNCHANGED <<widgets, df, metrics>>

\* lines 71-87
RunEngine ==
  /\ pc = "engine"
  /\ ~IsEmpty(df)
  /\ df' = Engine(df.Close, short_p, long_p, use_rsi, rsi_limit, cost_pct,
                  initial_capital)
  /\ pc' = "report"
  /\ UNCHANGED <<widgets, metrics>>

\* lines 90-139
Report ==
  /\ pc = "report"
  /\ metrics' = Metrics(df, initial_capital)
  /\ pc' = "done"
  /\ UNCHANGED <<widgets, df>>

\* the next interaction reruns the script from the top; widget state persists
Rerun ==
  /\ pc = "done"
  /\ pc' = "sidebar"
  /\ df' = EmptyFrame
  /\ metrics' = EmptyFrame
  /\ UNCHANGED widgets

Next ==
  \/ SidebarUnchanged
  \/ SidebarInput
  \/ NoTarget
  \/ get_stock_data
  \/ get_stock_data_except
  \/ SkipEmpty
  \/ RunEngine
  \/ Report
  \/ Rerun

Spec == Init /\ [][Next]_vars

(***************************************************************************)
(* Vocabulary of the properties.                                           *)
(***************************************************************************)
\* the engine has produced the derived columns of this run
Computed == "Signal" \in DOMAIN df

\* the metric cards of this run are on the page
Reported == DOMAIN metrics # {}

Rows == IF DOMAIN df = {} THEN 0 ELSE Len(df.Close)

ProducedNothing == DOMAIN df \cap DerivedColumns = {} /\ DOMAIN metrics = {}

ProducedEverything ==
  /\ DerivedColumns \subseteq DOMAIN df
  /\ \A c \in DerivedColumns : Len(df[c]) = Rows
  /\ Reported

SignalChanges == {i \in 2..Rows : df.Signal[i] # df.Signal[i - 1]}

StrictlyIncreasing(s) == \A i \in 2..Len(s) : s[i - 1] < s[i]

\* the day's growth factor 1 + Strat_Ret.fillna(0)
Factor(d, i) == RAdd(R(1), FillNa(d.Strat_Ret, R(0))[i])

\* the signal with entry i alone switched
Perturbed(signal, i) == [signal EXCEPT ![i] = 1 - @]

\* Strat_Ret[i] as the script computes it from the perturbed signal
ReturnAfterPerturbing(i) ==
  LET p == Perturbed(df.Signal, i)
  IN StratRet(p, TradeSeries(p), df.Market_Ret, cost_pct)[i]

\* the same run with the RSI checkbox switched: same prices, same cost rate
RunWithOtherFilter ==
  Engine(df.Close, short_p, long_p, ~use_rsi, rsi_limit, cost_pct, initial_capital)

\* the indices i > 0 where the two runs agree on signal[i-1] and differ in
\* signal[i]
DifferOnlyToday(other) ==
  {i \in 2..Rows :
     other.Signal[i - 1] = df.Signal[i - 1] /\ other.Signal[i] # df.Signal[i]}

\* the same run with the friction slider at another position
RunAtCost(c) ==
  Engine(df.Close, short_p, long_p, use_rsi, rsi_limit, c, initial_capital)

LowerCosts == {c \in {Norm(k, CostStepDenominator) : k \in CostSteps} : RLess(c, cost_pct)}

(***************************************************************************)
(* C1.                                                                     *)
(***************************************************************************)
\* C1 as stated: for every i > 0 and every cost rate, two runs over the same
\* prices and cost rate that agree on signal[i-1] and differ in signal[i]
\* (here: the run and the same run with the RSI checkbox switched) have the
\* same strategy_return[i].
C1_NoLookAheadAnyCost ==
  pc = "report" =>
    \A other \in {RunWithOtherFilter} :
      \A i \in DifferOnlyToday(other) : other.Strat_Ret[i] = df.Strat_Ret[i]

\* C1 amended: strategy_return[i] is signal[i-1] * (price[i]/price[i-1] - 1)
\* minus cost_rate when signal[i] differs from signal[i-1]; switching signal[i]
\* alone leaves it unchanged when cost_rate = 0 and moves it by exactly
\* cost_rate when cost_rate > 0, and so for the run with the RSI checkbox
\* switched.
C1_NoLookAheadUpToCost ==
  /\ pc = "report" =>
       \A other \in {RunWithOtherFilter} :
         \A i \in DifferOnlyToday(other) :
           IF df.Signal[i] # df.Signal[i - 1]
           THEN other.Strat_Ret[i] = RAdd(df.Strat_Ret[i], cost_pct)
           ELSE other.Strat_Ret[i] = RSub(df.Strat_Ret[i], cost_pct)
  /\ Computed =>
    \A i \in 2..Rows :
      LET held == R(df.Signal[i - 1])
          move == RSub(RDiv(R(df.Close[i]), R(df.Close[i - 1])), R(1))
          fee == IF df.Signal[i] # df.Signal[i - 1] THEN cost_pct ELSE R(0)
          other == ReturnAfterPerturbing(i)
      IN /\ df.Strat_Ret[i] = RSub(RMul(held, move), fee)
         /\ cost_pct = R(0) => other = df.Strat_Ret[i]
         /\ cost_pct # R(0) =>
              IF df.Signal[i] # df.Signal[i - 1]
              THEN other = RAdd(df.Strat_Ret[i], cost_pct)
              ELSE other = RSub(df.Strat_Ret[i], cost_pct)

\* a zero-cost run that enters and leaves, and whose signal the RSI checkbox
\* changes on a day with a price move, after a day on which it does not
C1_Witness ==
  /\ pc = "report"
  /\ cost_pct = R(0)
  /\ Cardinality(SignalChanges) >= 2
  /\ \E other \in {RunWithOtherFilter} :
       \E i \in DifferOnlyToday(other) : df.Market_Ret[i] # R(0)

(***************************************************************************)
(* C2.                                                                     *)
(***************************************************************************)
\* C2: the trade series is 0 or 1 everywhere, trade[0] = 0, for i > 0
\* trade[i] = 1 exactly when signal[i] differs from signal[i-1], and the
\* reported trade count is the number of signal changes.
C2_TradeSignalConsistency ==
  /\ Computed =>
       /\ \A i \in 1..Rows : df.Trade[i] \in {R(0), R(1)}
       /\ Rows >= 1 => df.Trade[1] = R(0)
       /\ \A i \in 2..Rows : df.Trade[i] = R(1) <=> df.Signal[i] # df.Signal[i - 1]
  /\ Reported => metrics.trades = Cardinality(SignalChanges)

\* a run that enters, leaves and enters again
C2_Witness ==
  /\ Reported
  /\ metrics.trades = 3
  /\ \E i \in 2..Rows : df.Signal[i - 1] = 1 /\ df.Signal[i] = 0

(***************************************************************************)
(* C3.                                                                     *)
(***************************************************************************)
\* C3: with the RSI filter on, the signal is at most the MA-crossover signal
\* at every index, is 1 exactly where the crossover signal is 1 and
\* RSI < rsi_ceiling, and is 0 wherever the RSI or a moving average is
\* undefined; with the filter off it is the crossover signal.
C3_FilterNeverAddsLong ==
  Computed =>
    IF use_rsi
    THEN \A i \in 1..Rows :
           /\ df.Signal[i] <= df.MA_Signal[i]
           /\ df.Signal[i] \in {0, 1}
           /\ df.Signal[i] = 1 <=>
                /\ RLess(df.Long_MA[i], df.Short_MA[i])
                /\ RsiBelow(df.RSI[i], rsi_limit)
           /\ (\/ IsNaN(df.RSI[i][1])
               \/ IsNaN(df.RSI[i][2])
               \/ IsNaN(df.Short_MA[i])
               \/ IsNaN(df.Long_MA[i])) => df.Signal[i] = 0
    ELSE df.Signal = df.MA_Signal

\* the filter, on a defined RSI, turns a crossover long into flat
C3_Witness ==
  /\ Computed
  /\ use_rsi
  /\ \E i \in 1..Rows :
       /\ df.MA_Signal[i] = 1
       /\ df.Signal[i] = 0
       /\ ~IsNaN(df.RSI[i][1])

(***************************************************************************)
(* C4.                                                                     *)
(***************************************************************************)
\* C4 as stated: a run with short_window >= long_window or cost_rate < 0
\* produces no derived series and reports no summary statistics.
C4_InvalidParametersRejected ==
  (short_p >= long_p \/ RLess(cost_pct, R(0))) => ProducedNothing

\* C4 amended: cost_rate is never negative (the slider spans 0 % to 1 %), and
\* short_window >= long_window is not rejected: a finished run over a
\* non-empty price series has every derived series, aligned with the prices,
\* and its summary statistics, whatever the order of the windows; with
\* short_window = long_window the signal is 0 throughout.
C4_WindowOrderNotChecked ==
  /\ RLeq(R(0), cost_pct)
  /\ RLeq(cost_pct, Norm(CostSliderSteps, CostStepDenominator))
  /\ (pc = "done" /\ target_stock # "" /\ Rows >= 1) => ProducedEverything
  /\ (Computed /\ short_p = long_p) => \A i \in 1..Rows : df.Signal[i] = 0

\* a reported run with the short window above the long one, and trades
C4_Witness ==
  /\ Reported
  /\ short_p > long_p
  /\ metrics.trades > 0

(***************************************************************************)
(* C5.                                                                     *)
(***************************************************************************)
\* C5 as stated: a run over fewer than 2 price rows (none, or one) produces
\* no derived series and reports no summary statistics.
C5_FewerThanTwoRowsRejected ==
  (pc \in {"report", "done"} /\ Rows < 2) => ProducedNothing

\* C5 amended: an empty or unavailable price series is skipped (no error
\* outcome): no derived series, no summary statistics.  A single row is not
\* rejected: the run produces every derived series, of length 1 with signal
\* and trade 0, and reports final value = initial_capital and 0 trades.
C5_OnlyEmptyIsSkipped ==
  /\ Rows = 0 => ProducedNothing
  /\ (pc = "done" /\ target_stock # "" /\ Rows = 1) =>
       /\ ProducedEverything
       /\ df.Signal = <<0>>
       /\ df.Trade = <<R(0)>>
       /\ metrics.final_val = R(initial_capital)
       /\ metrics.trades = 0
       /\ ~metrics.holding

\* a reported run over a single price row
C5_Witness ==
  /\ Reported
  /\ Rows = 1

C7_AccountRecurrence ==
  Computed =>
    /\ Rows >= 1 => IsNaN(df.Strat_Ret[1]) /\ df.Acc_Strat[1] = R(initial_capital)
    /\ \A i \in 2..Rows :
         /\ ~IsNaN(df.Strat_Ret[i])
         /\ df.Acc_Strat[i] = RMul(df.Acc_Strat[i - 1], RAdd(R(1), df.Strat_Ret[i]))
    /\ \A i \in 1..Rows :
         (\A j \in 1..i : df.Trade[j] = R(0)) => df.Acc_Strat[i] = R(initial_capital)

\* a run that stays flat for two rows, then trades at a cost and moves
C7_Witness ==
  /\ Computed
  /\ Rows >= 4
  /\ cost_pct # R(0)
  /\ initial_capital # 0
  /\ df.Trade[2] = R(0)
  /\ df.Trade[3] = R(1)
  /\ df.Acc_Strat[Rows] # df.Acc_Strat[3]

(***************************************************************************)
(* C8.                                                                     *)
(***************************************************************************)
IncreasingScenario ==
  /\ Reported
  /\ StrictlyIncreasing(df.Close)
  /\ Rows > long_p
  /\ short_p < long_p
  /\ cost_pct = R(0)

\* C8 as stated: on a strictly increasing series longer than long_window,
\* with short_window < long_window and cost_rate = 0, for either setting of
\* the RSI filter, the signal is 0, then switches to 1 once and stays 1;
\* trade_count = 1 and the final strategy account is above initial_capital.
C8_IncreasingEitherFilter ==
  IncreasingScenario =>
    /\ \E k \in 2..Rows : \A i \in 1..Rows : df.Signal[i] = IF i < k THEN 0 ELSE 1
    /\ metrics.trades = 1
    /\ RLess(R(initial_capital), metrics.final_val)

\* C8 amended: with the RSI filter off, the signal is 0 while the long moving
\* average is undefined and 1 from then on, trade_count = 1 and the final
\* strategy account is above initial_capital;
\* with the filter on, the signal stays 0 (the RSI of a rising series is
\* undefined or not below the ceiling), trade_count = 0 and the final
\* strategy account equals initial_capital.
C8_IncreasingFilterOff ==
  IncreasingScenario =>
    IF use_rsi
    THEN /\ \A i \in 1..Rows : df.Signal[i] = 0
         /\ metrics.trades = 0
         /\ metrics.final_val = R(initial_capital)
    ELSE /\ \A i \in 1..Rows : df.Signal[i] = IF i < long_p THEN 0 ELSE 1
         /\ metrics.trades = 1
         /\ RLess(R(initial_capital), metrics.final_val)

\* 100..129 under 5/20 with the filter off
C8_Witness ==
  /\ IncreasingScenario
  /\ df.Close = Ramp(100, 30)
  /\ short_p = 5
  /\ long_p = 20
  /\ ~use_rsi
  /\ metrics.trades = 1

(***************************************************************************)
(* C9.                                                                     *)
(***************************************************************************)
\* C9 as stated: with trade_count > 0, the final strategy account under the
\* run's cost rate is strictly below the final strategy account of the same
\* run under any lower cost rate.
C9_CostMonotoneEveryRun ==
  (Reported /\ metrics.trades > 0) =>
    \A c \in LowerCosts :
      \A other \in {RunAtCost(c)} :
        RLess(metrics.final_val, other.Acc_Strat[Rows])

\* C9 amended: the same, for a run whose daily growth factor
\* 1 + strategy_return[i] is positive at every index under the higher cost
\* rate; the signal and trade series are the same under both rates.
C9_CostMonotonePositiveFactors ==
  (Reported /\ metrics.trades > 0) =>
    \A c \in LowerCosts :
      \A other \in {RunAtCost(c)} :
        /\ other.Signal = df.Signal
        /\ other.Trade = df.Trade
        /\ (\A i \in 1..Rows : RLess(R(0), Factor(df, i))) =>
             RLess(metrics.final_val, other.Acc_Strat[Rows])

\* a run at 1 % with two trades and positive factors
C9_Witness ==
  /\ Reported
  /\ metrics.trades >= 2
  /\ LowerCosts # {}
  /\ \A i \in 1..Rows : RLess(R(0), Factor(df, i))

(***************************************************************************)
(* C10.                                                                    *)
(***************************************************************************)
\* C10: long_window >= 2, so the long moving average is undefined at index 0
\* and signal[0] = 0; the reported position (last signal) is long exactly
\* when trade_count is odd; on the day a long position is entered the
\* strategy return is -cost_rate.
C10_PositionTradeParity ==
  /\ long_p >= 2
  /\ Computed =>
       /\ Rows >= 1 => IsNaN(df.Long_MA[1]) /\ df.Signal[1] = 0
       /\ \A i \in 2..Rows :
            (df.Signal[i - 1] = 0 /\ df.Signal[i] = 1) =>
              df.Strat_Ret[i] = RNeg(cost_pct)
  /\ Reported =>
       /\ metrics.holding <=> df.Signal[Rows] = 1
       /\ metrics.holding <=> metrics.trades % 2 = 1

\* a run at a cost whose only trade is an entry the RSI filter let through
C10_Witness ==
  /\ Reported
  /\ use_rsi
  /\ metrics.holding
  /\ metrics.trades = 1
  /\ cost_pct # R(0)

====
